---- MODULE Spec2Model ----
(***************************************************************************)
(* Market-data aggregation core of bot.py: the TTL cache (get_cached,      *)
(* set_cached), the two fetchers (fetch_btc_price, fetch_fear_greed), the  *)
(* composer (get_market_snapshot) and the /status handler (cmd_status),    *)
(* run by the worker threads of the bot.                                   *)
(*                                                                         *)
(* Time is time.time() in seconds, advanced by Tick.  Prices are modelled  *)
(* as integers (the float of USD.last in whole units).  Python values are  *)
(* tagged records so that None, a float and a tuple never compare equal.   *)
(***************************************************************************)
EXTENDS Integers, Sequences, FiniteSets, TLC

VARIABLES
    cache,      \* _cache: key -> [value, timestamp], a function on the keys present
    now,        \* time.time()
    active,     \* the threads that run handlers (fixed by Init)
    calls,      \* number of /status invocations started so far
    pc,         \* per thread: position inside cmd_status
    btc_price,  \* per thread: local btc_price of get_market_snapshot
    fear,       \* per thread: the pair returned by fetch_fear_greed
    data,       \* per thread: the dict returned by get_market_snapshot
    text,       \* per thread: which message cmd_status sent
    obs,        \* per thread, history: what each fetcher call observed and did
    prev,       \* history: the previous completed invocation
    redundant,  \* history: per key, consecutive cache writes that replaced a fresh entry
    probe       \* history: the last direct get_cached / set_cached call (cache API)

vars == <<cache, now, active, calls, pc, btc_price, fear, data, text, obs, prev,
          redundant, probe>>

----------------------------------------------------------------------------
(* Program constants. *)

CACHE_TTL == 60

REQUEST_TIMEOUT == 15

PRICE_KEY == "btc_price"

FEAR_KEY == "fear_greed"

Keys == {PRICE_KEY, FEAR_KEY}

(* Bounds of the model. *)

MaxTime == 80

TickStep == CACHE_TTL \div 3

MaxCalls == 3

MaxProbeTime == 62

MaxSetTime == 1

FEAR_MAX == 100

MaxFear == 120

MaxTextLen == 4

Threads == {1, 2, 3}

WorkerThreads == {1, 2}

----------------------------------------------------------------------------
(* Python values. *)

PyNone == [t |-> "None"]

PyFloat(x) == [t |-> "float", v |-> x]

PyInt(x) == [t |-> "int", v |-> x]

PyStr(s) == [t |-> "str", s |-> s]

PyPair(a, b) == [t |-> "tuple", a |-> a, b |-> b]

\* bool(x) as Python evaluates it in `if x` / `x or y`
Truthy(x) ==
    CASE x.t = "None"  -> FALSE
      [] x.t = "float" -> x.v # 0
      [] x.t = "int"   -> x.v # 0
      [] x.t = "str"   -> x.s # ""
      [] x.t = "tuple" -> TRUE

----------------------------------------------------------------------------
(* TTL cache. *)

EmptyCache == [k \in {} |-> PyNone]

get_cached_stale_inclusive(c, key, t) ==
    IF key \in DOMAIN c /\ t - c[key].timestamp <= CACHE_TTL
    THEN c[key].value
    ELSE PyNone

get_cached_never_fresh(c, key, t) ==
    IF key \in DOMAIN c /\ t - c[key].timestamp > CACHE_TTL
    THEN c[key].value
    ELSE PyNone

\* get_cached(key) evaluated on cache c at time t
get_cached(c, key, t) ==
    IF key \in DOMAIN c /\ t - c[key].timestamp < CACHE_TTL
    THEN c[key].value
    ELSE PyNone

cache_after_get_evicting(c, key, t) ==
    IF key \in DOMAIN c /\ t - c[key].timestamp >= CACHE_TTL
    THEN [k \in DOMAIN c \ {key} |-> c[k]]
    ELSE c

\* the cache after get_cached(key) at time t: lines 75-79 assign nothing
cache_after_get(c, key, t) == c

set_cached_beside_existing(c, key, value, t) ==
    LET slot == IF key \in DOMAIN c THEN "overflow" ELSE key
    IN [k \in DOMAIN c \cup {slot} |->
           IF k = slot THEN [value |-> value, timestamp |-> t] ELSE c[k]]

set_cached_keeping_fresh(c, key, value, t) ==
    IF key \in DOMAIN c /\ t - c[key].timestamp < CACHE_TTL
    THEN c
    ELSE [k \in DOMAIN c \cup {key} |->
             IF k = key THEN [value |-> value, timestamp |-> t] ELSE c[k]]

\* the cache after set_cached(key, value) at time t
set_cached(c, key, value, t) ==
    [k \in DOMAIN c \cup {key} |->
        IF k = key THEN [value |-> value, timestamp |-> t] ELSE c[k]]

----------------------------------------------------------------------------
(* Price fetcher: what the ticker endpoint can answer and what lines       *)
(* 98-113 of fetch_btc_price make of it.                                   *)

PriceValues == {-1, 0, 1, 2}

PriceFailures ==
    {"timeout", "conn_error", "http_error", "bad_json", "no_usd", "usd_scalar",
     "no_last", "not_number"}

PriceResponses ==
    {[kind |-> k, v |-> 0] : k \in PriceFailures} \cup
    {[kind |-> "number", v |-> x] : x \in PriceValues}

NoExc == "none"

\* an outcome of a try block: the exception raised inside it (or NoExc),
\* whether set_cached is called, and the value returned from inside it
Falls(exc) == [exc |-> exc, store |-> FALSE, ret |-> PyNone]

Returns(value) == [exc |-> NoExc, store |-> TRUE, ret |-> value]

price_valid_nonnegative(price) == price >= 0

\* line 106
price_valid(price) == price > 0

\* lines 99-108, the body of the try block
price_try(r) ==
    CASE r.kind = "timeout"    -> Falls("Timeout")           \* requests.get raises
      [] r.kind = "conn_error" -> Falls("ConnectionError")
      [] r.kind = "http_error" -> Falls("HTTPError")         \* raise_for_status
      [] r.kind = "bad_json"   -> Falls("JSONDecodeError")   \* response.json()
      [] r.kind = "no_usd"     -> Falls(NoExc)               \* "USD" in data is False
      [] r.kind = "usd_scalar" -> Falls("TypeError")         \* "last" in data["USD"]
      [] r.kind = "no_last"    -> Falls(NoExc)
      [] r.kind = "not_number" -> Falls("ValueError")        \* float(...)
      [] r.kind = "number"     ->
            IF price_valid(r.v) THEN Returns(PyFloat(r.v)) ELSE Falls(NoExc)

except_requests_only(exc) == exc \in {"Timeout", "ConnectionError", "HTTPError"}

\* `except Exception` (lines 68, 110, 159): every exception above is an Exception
except_Exception(exc) == exc # NoExc

Outcome_caching_failures(t, fallback) ==
    IF t.exc = NoExc
    THEN [raised |-> FALSE, store |-> TRUE, ret |-> IF t.store THEN t.ret ELSE fallback]
    ELSE [raised |-> FALSE, store |-> TRUE, ret |-> fallback]

\* a fetcher's outcome once the response is in: raised (the exception escapes),
\* store (set_cached follows), ret (the value it returns)
Outcome(t, fallback) ==
    IF t.exc = NoExc
    THEN [raised |-> FALSE, store |-> t.store, ret |-> IF t.store THEN t.ret ELSE fallback]
    ELSE [raised |-> ~except_Exception(t.exc), store |-> FALSE, ret |-> fallback]

\* the headers fetch_html passes to requests.get (lines 58-64)
BrowserHeaders ==
    {"User-Agent", "Accept", "Accept-Language", "Accept-Encoding", "Connection"}

\* the request of fetch_btc_price, line 99: url and timeout, no headers argument
price_request ==
    [url |-> "blockchain.info/ticker", headers |-> {}, timeout |-> REQUEST_TIMEOUT]

\* the request of fetch_html, line 66, for the page of line 125
html_request ==
    [url |-> "alternative.me/crypto/fear-and-greed-index", headers |-> BrowserHeaders,
     timeout |-> REQUEST_TIMEOUT]

\* fetch_btc_price from line 97 on, given the endpoint's answer
fetch_btc_price_net(r) == Outcome(price_try(r), PyNone)

----------------------------------------------------------------------------
(* Sentiment fetcher.  The page text (soup.get_text()) is a sequence of    *)
(* tokens: the words "Now" and "Index", other text, and runs of digits.    *)

Word(w) == [w |-> w, d |-> <<>>]

Num(ds) == [w |-> "num", d |-> ds]

NoMatch == [found |-> FALSE, group |-> <<>>]

Min(a, b) == IF a < b THEN a ELSE b

\* re.search(token + r"[^\d]*(\d{1,3})", text, re.IGNORECASE): the first
\* occurrence of the token that has a digit somewhere after it, and the first
\* one to three digits of the first digit run after it
re_search(token, txt) ==
    LET ws == {i \in 1..Len(txt) : txt[i].w = token
                   /\ \E j \in (i+1)..Len(txt) : txt[j].w = "num"}
    IN IF ws = {} THEN NoMatch
       ELSE LET i == CHOOSE x \in ws : \A y \in ws : x <= y
                ns == {j \in (i+1)..Len(txt) : txt[j].w = "num"}
                j == CHOOSE x \in ns : \A y \in ns : x <= y
            IN [found |-> TRUE, group |-> SubSeq(txt[j].d, 1, Min(3, Len(txt[j].d)))]

RECURSIVE int(_)
\* int(match.group(1))
int(ds) == IF ds = <<>> THEN 0 ELSE 10 * int(SubSeq(ds, 1, Len(ds) - 1)) + ds[Len(ds)]

fear_label_strict(value) ==
    IF value < 25 THEN "Extreme Fear"
    ELSE IF value < 45 THEN "Fear"
    ELSE IF value < 55 THEN "Neutral"
    ELSE IF value < 75 THEN "Greed"
    ELSE "Extreme Greed"

\* lines 143-152
fear_label(value) ==
    IF value <= 25 THEN "Extreme Fear"
    ELSE IF value <= 45 THEN "Fear"
    ELSE IF value <= 55 THEN "Neutral"
    ELSE IF value <= 75 THEN "Greed"
    ELSE "Extreme Greed"

fear_valid_unbounded(value) == 0 <= value

\* line 141
fear_valid(value) == 0 <= value /\ value <= FEAR_MAX

fear_match_index_first(txt) ==
    LET m == re_search("Index", txt)
    IN IF ~m.found THEN re_search("Now", txt) ELSE m

\* lines 134-137
fear_match(txt) ==
    LET m == re_search("Now", txt)
    IN IF ~m.found THEN re_search("Index", txt) ELSE m

NoneNone == PyPair(PyNone, PyNone)

\* lines 130-158, the body of the try block
fear_try(r) ==
    IF r.kind = "soup_error" THEN Falls("FeatureNotFound")
    ELSE LET m == fear_match(r.text)
         IN IF m.found /\ fear_valid(int(m.group))
            THEN Returns(PyPair(PyInt(int(m.group)), PyStr(fear_label(int(m.group)))))
            ELSE Falls(NoExc)

HtmlFailures == {"timeout", "conn_error", "http_error"}

\* fetch_html (lines 55-70): the page text, or None on any exception
fetch_html(r) ==
    LET exc == CASE r.kind = "timeout"    -> "Timeout"
                 [] r.kind = "conn_error" -> "ConnectionError"
                 [] r.kind = "http_error" -> "HTTPError"
                 [] OTHER                 -> NoExc
    IN [raised |-> exc # NoExc /\ ~except_Exception(exc),
        html   |-> IF exc # NoExc \/ r.kind = "empty" THEN PyNone ELSE PyStr("html")]

\* fetch_fear_greed from line 125 on, given the page's answer
fetch_fear_greed_net(r) ==
    LET h == fetch_html(r)
    IN IF h.raised THEN [raised |-> TRUE, store |-> FALSE, ret |-> NoneNone]
       ELSE IF ~Truthy(h.html) THEN [raised |-> FALSE, store |-> FALSE, ret |-> NoneNone]
       ELSE Outcome(fear_try(r), NoneNone)

Pages ==
    { <<Word("Now"), Num(<<3, 8>>)>>,
      <<Word("Now"), Word("txt"), Num(<<0>>)>>,
      <<Word("txt"), Word("Index"), Num(<<3, 8>>)>>,
      <<Word("Now"), Num(<<1, 0, 1>>), Word("Index"), Num(<<3, 8>>)>>,
      <<Word("txt"), Num(<<3, 8>>)>>,
      <<Word("Now"), Word("txt")>> }

HtmlResponses ==
    {[kind |-> k, text |-> <<>>] : k \in HtmlFailures \cup {"empty", "soup_error"}} \cup
    {[kind |-> "page", text |-> t] : t \in Pages}

----------------------------------------------------------------------------
(* Composer and /status handler. *)

snapshot_short_circuit(price, pair, t) ==
    [btc_price  |-> price,
     fear_value |-> IF price = PyNone THEN PyNone ELSE pair.a,
     fear_label |-> IF price = PyNone THEN PyNone ELSE pair.b,
     timestamp  |-> t]

\* lines 169-174: the dict get_market_snapshot returns
snapshot(price, pair, t) ==
    [btc_price |-> price, fear_value |-> pair.a, fear_label |-> pair.b, timestamp |-> t]

\* lines 247-250: which text cmd_status sends
status_text(d) ==
    IF Truthy(d.btc_price) \/ Truthy(d.fear_value) THEN "snapshot" ELSE "unavailable"

NoData == [btc_price |-> PyNone, fear_value |-> PyNone, fear_label |-> PyNone, timestamp |-> 0]

----------------------------------------------------------------------------
(* History variables. *)

\* psrc / ssrc: how the price / the sentiment of the current request was obtained:
\* "hit" from the cache, "ok" from the network, "invalid" a number failing line 106,
\* "fail" any other failure, "none" not fetched yet
\* preq / sreq: how many requests the current invocation has sent to the price /
\* the sentiment source (counted up to 2); sent: the requests it has sent
\* pnewer / snewer: the threads whose response arrived after this one's while
\* this one's value waits to be written; pold / sold: one of them has written
\* (kept until this invocation's next step after its own write)
NoObs == [psrc |-> "none", ssrc |-> "none", preq |-> 0, sreq |-> 0, sent |-> {},
          pnewer |-> {}, snewer |-> {}, pold |-> FALSE, sold |-> FALSE]

FromNetwork == {"ok", "invalid", "fail"}

Failed == {"invalid", "fail"}

Succeeded == {"ok", "hit"}

NoPrev == [valid |-> FALSE, data |-> NoData, psrc |-> "none", ssrc |-> "none",
           cache |-> EmptyCache]

NoProbe == [op |-> "none", key |-> "", arg |-> PyNone, res |-> PyNone, sets |-> EmptyCache]

\* whether the entry under key is present and younger than the TTL at time t
Fresh(c, key, t) == key \in DOMAIN c /\ t - c[key].timestamp < CACHE_TTL

\* the streak of writes that replaced a fresh entry, after one more write
Streak(n, fresh) == IF fresh THEN Min(n + 1, Cardinality(Threads)) ELSE 0

\* requests are consecutive (one after the other) when a single thread serves them
Sequential == Cardinality(active) = 1

----------------------------------------------------------------------------
(* Initial states. *)

\* the bot with an empty cache, `served` requests behind it
InitFrom(threads, served) ==
    /\ cache = EmptyCache
    /\ now = 0
    /\ active \in threads
    /\ calls = served
    /\ pc = [p \in Threads |-> "idle"]
    /\ btc_price = [p \in Threads |-> PyNone]
    /\ fear = [p \in Threads |-> NoneNone]
    /\ data = [p \in Threads |-> NoData]
    /\ text = [p \in Threads |-> ""]
    /\ obs = [p \in Threads |-> NoObs]
    /\ prev = NoPrev
    /\ redundant = [k \in Keys |-> 0]
    /\ probe = NoProbe

InitWith(threads) == InitFrom(threads, 0)

\* the handlers run on the bot's worker threads
Init == InitWith({WorkerThreads})

----------------------------------------------------------------------------
(* One /status request on thread p.  A thread's steps are the points where *)
(* it reads or writes the shared cache or waits for the network; the code  *)
(* between two such points touches only its own locals and runs with the   *)
(* step before it.                                                         *)

\* a reply is out and its handler has not returned yet: the return runs with
\* the reply, before any other thread moves
Replying == \E p \in Threads : pc[p] = "done"

\* get_market_snapshot returns (lines 169-174) and cmd_status picks and sends
\* the text (lines 247-252), with the pair fetch_fear_greed returned
Reply(p, pair) ==
    /\ data' = [data EXCEPT ![p] = snapshot(btc_price[p], pair, now)]
    /\ text' = [text EXCEPT ![p] = status_text(data'[p])]

\* the order of arrival of the responses is recorded for the bot's own workers
OrderRecorded == active = WorkerThreads

\* obs once a storable price response has arrived at thread p
PriceArrived(p) ==
    [q \in Threads |->
        IF q # p /\ pc[q] = "price_set" /\ OrderRecorded
        THEN [obs[q] EXCEPT !.pnewer = @ \cup {p}] ELSE obs[q]]

\* obs once thread p has written its price
PriceWritten(p) ==
    [q \in Threads |->
        IF q = p THEN [obs[q] EXCEPT !.pnewer = {}]
        ELSE IF pc[q] = "price_set" /\ p \in obs[q].pnewer
        THEN [obs[q] EXCEPT !.pold = TRUE] ELSE obs[q]]

\* obs once a storable sentiment response has arrived at thread p
FearArrived(p) ==
    [q \in Threads |->
        IF q # p /\ pc[q] = "fear_set" /\ OrderRecorded
        THEN [obs[q] EXCEPT !.snewer = @ \cup {p}] ELSE obs[q]]

\* obs once thread p has written its sentiment
FearWritten(p) ==
    [q \in Threads |->
        IF q = p THEN [obs[q] EXCEPT !.snewer = {}]
        ELSE IF pc[q] = "fear_set" /\ p \in obs[q].snewer
        THEN [obs[q] EXCEPT !.sold = TRUE] ELSE obs[q]]

\* how many requests are served: with more threads than the bot's workers,
\* one per thread
CallBudget ==
    IF Cardinality(active) > Cardinality(WorkerThreads) THEN Cardinality(active) ELSE MaxCalls

\* cmd_status is dispatched (lines 238-244) and calls get_market_snapshot
Start(p) ==
    /\ ~Replying
    /\ p \in active
    /\ pc[p] = "idle"
    /\ calls < CallBudget
    /\ calls' = calls + 1
    /\ pc' = [pc EXCEPT ![p] = "price_get"]
    /\ UNCHANGED <<cache, now, active, btc_price, fear, data, text, obs, prev, redundant,
                   probe>>

\* fetch_btc_price, lines 92-99: cache lookup; on a miss the request goes out
PriceLookup(p) ==
    /\ ~Replying
    /\ pc[p] = "price_get"
    /\ LET cached == get_cached(cache, PRICE_KEY, now)
       IN IF Truthy(cached)
          THEN /\ btc_price' = [btc_price EXCEPT ![p] = cached]
               /\ pc' = [pc EXCEPT ![p] = "fear_get"]
               /\ obs' = [obs EXCEPT ![p].psrc = "hit"]
          ELSE /\ pc' = [pc EXCEPT ![p] = "price_req"]
               /\ obs' = [obs EXCEPT ![p].preq = IF @ < 2 THEN @ + 1 ELSE @,
                                      ![p].sent = @ \cup {price_request}]
               /\ UNCHANGED btc_price
    /\ cache' = cache_after_get(cache, PRICE_KEY, now)
    /\ UNCHANGED <<now, active, calls, fear, data, text, prev, redundant, probe>>

after_price_retrying(o) == IF o.store THEN "price_set" ELSE "price_get"

\* where fetch_btc_price goes once the response is in: on to set_cached
\* (line 107), or out with None (lines 109-113); nothing loops back
after_price(o) == IF o.store THEN "price_set" ELSE "fear_get"

\* fetch_btc_price, lines 99-113: the answer arrives and is parsed
PriceResponse(p) ==
    /\ ~Replying
    /\ pc[p] = "price_req"
    /\ \E r \in PriceResponses :
          LET o == fetch_btc_price_net(r)
          IN IF o.raised
             THEN /\ pc' = [pc EXCEPT ![p] = "raised"]
                  /\ UNCHANGED <<btc_price, obs>>
             ELSE /\ btc_price' = [btc_price EXCEPT ![p] = o.ret]
                  /\ pc' = [pc EXCEPT ![p] = after_price(o)]
                  /\ obs' = [(IF o.store THEN PriceArrived(p) ELSE obs) EXCEPT ![p].psrc =
                        IF o.store THEN "ok"
                        ELSE IF r.kind = "number" THEN "invalid" ELSE "fail"]
    /\ UNCHANGED <<cache, now, active, calls, fear, data, text, prev, redundant, probe>>

\* fetch_btc_price, lines 107-108: set_cached and return
PriceStore(p) ==
    /\ ~Replying
    /\ pc[p] = "price_set"
    /\ cache' = set_cached(cache, PRICE_KEY, btc_price[p], now)
    /\ redundant' = [redundant EXCEPT
          ![PRICE_KEY] = Streak(redundant[PRICE_KEY], Fresh(cache, PRICE_KEY, now))]
    /\ pc' = [pc EXCEPT ![p] = "fear_get"]
    /\ obs' = PriceWritten(p)
    /\ UNCHANGED <<now, active, calls, btc_price, fear, data, text, prev, probe>>

\* fetch_fear_greed, lines 121-125: cache lookup; a hit returns to the composer,
\* on a miss the request goes out
FearLookup(p) ==
    /\ ~Replying
    /\ pc[p] = "fear_get"
    /\ LET cached == get_cached(cache, FEAR_KEY, now)
       IN IF Truthy(cached)
          THEN /\ fear' = [fear EXCEPT ![p] = cached]
               /\ Reply(p, cached)
               /\ pc' = [pc EXCEPT ![p] = "done"]
               /\ obs' = [obs EXCEPT ![p].ssrc = "hit", ![p].pold = FALSE]
          ELSE /\ pc' = [pc EXCEPT ![p] = "fear_req"]
               /\ obs' = [obs EXCEPT ![p].sreq = IF @ < 2 THEN @ + 1 ELSE @,
                                      ![p].sent = @ \cup {html_request},
                                      ![p].pold = FALSE]
               /\ UNCHANGED <<fear, data, text>>
    /\ cache' = cache_after_get(cache, FEAR_KEY, now)
    /\ UNCHANGED <<now, active, calls, btc_price, prev, redundant, probe>>

\* fetch_fear_greed, lines 125-161: the page arrives and is parsed; without a
\* valid value the fetcher returns to the composer
FearResponse(p) ==
    /\ ~Replying
    /\ pc[p] = "fear_req"
    /\ \E r \in HtmlResponses :
          LET o == fetch_fear_greed_net(r)
          IN IF o.raised
             THEN /\ pc' = [pc EXCEPT ![p] = "raised"]
                  /\ UNCHANGED <<fear, data, text, obs>>
             ELSE /\ fear' = [fear EXCEPT ![p] = o.ret]
                  /\ obs' = [(IF o.store THEN FearArrived(p) ELSE obs) EXCEPT ![p].ssrc =
                        IF o.store THEN "ok" ELSE "fail"]
                  /\ IF o.store
                     THEN /\ pc' = [pc EXCEPT ![p] = "fear_set"]
                          /\ UNCHANGED <<data, text>>
                     ELSE /\ pc' = [pc EXCEPT ![p] = "done"]
                          /\ Reply(p, o.ret)
    /\ UNCHANGED <<cache, now, active, calls, btc_price, prev, redundant, probe>>

\* fetch_fear_greed, lines 154-156: set_cached and return to the composer
FearStore(p) ==
    /\ ~Replying
    /\ pc[p] = "fear_set"
    /\ cache' = set_cached(cache, FEAR_KEY, fear[p], now)
    /\ redundant' = [redundant EXCEPT
          ![FEAR_KEY] = Streak(redundant[FEAR_KEY], Fresh(cache, FEAR_KEY, now))]
    /\ Reply(p, fear[p])
    /\ pc' = [pc EXCEPT ![p] = "done"]
    /\ obs' = FearWritten(p)
    /\ UNCHANGED <<now, active, calls, btc_price, fear, prev, probe>>

\* the handler returns; the thread is free for the next request
Return(p) ==
    /\ pc[p] = "done"
    /\ prev' = IF Sequential
               THEN [valid |-> TRUE, data |-> data[p], psrc |-> obs[p].psrc,
                     ssrc |-> obs[p].ssrc, cache |-> cache]
               ELSE prev
    /\ pc' = [pc EXCEPT ![p] = "idle"]
    /\ btc_price' = [btc_price EXCEPT ![p] = PyNone]
    /\ fear' = [fear EXCEPT ![p] = NoneNone]
    /\ data' = [data EXCEPT ![p] = NoData]
    /\ text' = [text EXCEPT ![p] = ""]
    /\ obs' = [obs EXCEPT ![p] = NoObs]
    /\ UNCHANGED <<cache, now, active, calls, redundant, probe>>

\* how far time runs: with more threads than the bot's workers, one tick
Horizon == IF Cardinality(active) > Cardinality(WorkerThreads) THEN TickStep ELSE MaxTime

\* time.time() advances
Tick ==
    /\ ~Replying
    /\ now + TickStep <= Horizon
    /\ now' = now + TickStep
    /\ UNCHANGED <<cache, active, calls, pc, btc_price, fear, data, text, obs, prev,
                   redundant, probe>>

Next ==
    \/ \E p \in Threads : Start(p)
    \/ \E p \in Threads : PriceLookup(p)
    \/ \E p \in Threads : PriceResponse(p)
    \/ \E p \in Threads : PriceStore(p)
    \/ \E p \in Threads : FearLookup(p)
    \/ \E p \in Threads : FearResponse(p)
    \/ \E p \in Threads : FearStore(p)
    \/ \E p \in Threads : Return(p)
    \/ Tick

Spec == Init /\ [][Next]_vars

\* the steps of the invocation running on thread p
Run(p) ==
    \/ PriceLookup(p) \/ PriceResponse(p) \/ PriceStore(p)
    \/ FearLookup(p) \/ FearResponse(p) \/ FearStore(p)
    \/ Return(p)

\* one request per worker thread is still to come; every thread that can step
\* does step: the scheduler starves no thread, and
\* a request returns a response or fails by its timeout (REQUEST_TIMEOUT)
InitLive == InitFrom({WorkerThreads}, MaxCalls - Cardinality(WorkerThreads))

SpecLive == InitLive /\ [][Next]_vars /\ \A p \in Threads : WF_vars(Run(p))

\* a single thread: requests are served one after the other
InitSeq == InitWith({{1}})

SpecSeq == InitSeq /\ [][Next]_vars

\* two or three handler threads racing on the cache
InitRace == InitWith({WorkerThreads, Threads})

SpecRace == InitRace /\ [][Next]_vars

----------------------------------------------------------------------------
(* The cache operations and the label mapping called on their own, with    *)
(* time advancing second by second.                                        *)

ProbeValues == {PyFloat(1), PyFloat(2)}

\* set_cached(key, value)
ProbeSet(key, value) ==
    /\ now <= MaxSetTime
    /\ cache' = set_cached(cache, key, value, now)
    /\ probe' = [op |-> "set", key |-> key, arg |-> value, res |-> PyNone,
                 sets |-> [k \in DOMAIN probe.sets \cup {key} |->
                             IF k = key THEN [v |-> value, t |-> now] ELSE probe.sets[k]]]
    /\ UNCHANGED <<now, active, calls, pc, btc_price, fear, data, text, obs, prev, redundant>>

\* get_cached(key)
ProbeGet(key) ==
    /\ probe' = [probe EXCEPT !.op = "get", !.key = key, !.arg = PyNone,
                              !.res = get_cached(cache, key, now)]
    /\ cache' = cache_after_get(cache, key, now)
    /\ UNCHANGED <<now, active, calls, pc, btc_price, fear, data, text, obs, prev, redundant>>

\* the label of lines 143-152 for a value
ProbeLabel(value) ==
    /\ probe' = [probe EXCEPT !.op = "label", !.key = "", !.arg = PyInt(value),
                              !.res = PyStr(fear_label(value))]
    /\ UNCHANGED <<cache, now, active, calls, pc, btc_price, fear, data, text, obs, prev,
                   redundant>>

\* one second passes
ProbeTick ==
    /\ now < MaxProbeTime
    /\ now' = now + 1
    /\ probe' = [probe EXCEPT !.op = "none", !.key = "", !.arg = PyNone, !.res = PyNone]
    /\ UNCHANGED <<cache, active, calls, pc, btc_price, fear, data, text, obs, prev,
                   redundant>>

NextCache ==
    \/ \E key \in Keys, value \in ProbeValues : ProbeSet(key, value)
    \/ \E key \in Keys : ProbeGet(key)
    \/ ProbeTick

SpecCache == InitSeq /\ [][NextCache]_vars

NextLabel == \E value \in 0..MaxFear : ProbeLabel(value)

SpecLabel == InitSeq /\ [][NextLabel]_vars

----------------------------------------------------------------------------
(* The parsing of fetch_fear_greed (lines 130-158) applied to a page text  *)
(* drawn by the initial state.                                             *)

Tokens ==
    {Word("Now"), Word("Index"), Word("txt"),
     Num(<<7, 0>>), Num(<<1, 0, 1>>), Num(<<1, 0, 0, 0>>)}

Texts == UNION {[1..n -> Tokens] : n \in 0..MaxTextLen}

PyText(txt) == [t |-> "text", toks |-> txt]

InitParse ==
    /\ cache = EmptyCache
    /\ now = 0
    /\ active = {1}
    /\ calls = 0
    /\ pc = [p \in Threads |-> "idle"]
    /\ btc_price = [p \in Threads |-> PyNone]
    /\ fear = [p \in Threads |-> NoneNone]
    /\ data = [p \in Threads |-> NoData]
    /\ text = [p \in Threads |-> ""]
    /\ obs = [p \in Threads |-> NoObs]
    /\ prev = NoPrev
    /\ redundant = [k \in Keys |-> 0]
    /\ probe \in {[NoProbe EXCEPT !.op = "text", !.arg = PyText(txt)] : txt \in Texts}

\* fetch_fear_greed from line 125 on, the page having been loaded with this text
ProbeParse ==
    /\ probe.op = "text"
    /\ probe' = [probe EXCEPT !.op = "parse",
                    !.res = fetch_fear_greed_net([kind |-> "page", text |-> probe.arg.toks]).ret]
    /\ UNCHANGED <<cache, now, active, calls, pc, btc_price, fear, data, text, obs, prev,
                   redundant>>

NextParse == ProbeParse

SpecParse == InitParse /\ [][NextParse]_vars

----------------------------------------------------------------------------
(* Properties. *)

\* C1 -- Cache freshness: a get(k) made less than TTL (60) after the last
\* set(k, v), with no set(k, _) in between, returns v; a get(k) made TTL or more
\* after it (exactly TTL included) returns absent; and the entry (v, t) of the
\* last set stays physically in the cache, stale or not, until it is overwritten.
CacheFreshness ==
    /\ probe.op = "get" =>
          probe.res = IF probe.key \in DOMAIN probe.sets
                         /\ now - probe.sets[probe.key].t < 60
                      THEN probe.sets[probe.key].v
                      ELSE PyNone
    /\ \A k \in DOMAIN probe.sets :
          /\ k \in DOMAIN cache
          /\ cache[k] = [value |-> probe.sets[k].v, timestamp |-> probe.sets[k].t]

\* a get exactly TTL after the set: absent, with the entry still there
CacheFreshnessWitness ==
    /\ probe.op = "get"
    /\ probe.key \in DOMAIN probe.sets
    /\ now - probe.sets[probe.key].t = 60
    /\ probe.res = PyNone
    /\ probe.key \in DOMAIN cache

\* C2 -- Independent failure: every completed get_market_snapshot has called both
\* fetchers; its fields are the two fetchers' results; and when exactly one source
\* failed (no fresh cache entry for it) while the other succeeded, exactly that
\* field is absent and the other is populated.
IndependentFailure ==
    \A p \in Threads : pc[p] = "done" =>
        /\ obs[p].psrc # "none" /\ obs[p].ssrc # "none"
        /\ data[p].btc_price = btc_price[p]
        /\ data[p].fear_value = fear[p].a /\ data[p].fear_label = fear[p].b
        /\ (obs[p].psrc \in Failed /\ obs[p].ssrc \in Succeeded) =>
              /\ data[p].btc_price = PyNone
              /\ data[p].fear_value # PyNone /\ data[p].fear_label # PyNone
        /\ (obs[p].ssrc \in Failed /\ obs[p].psrc \in Succeeded) =>
              /\ data[p].btc_price # PyNone
              /\ data[p].fear_value = PyNone /\ data[p].fear_label = PyNone

\* the price source failed, the sentiment source answered: one field absent
IndependentFailureWitness ==
    \E p \in Threads :
        /\ pc[p] = "done" /\ obs[p].psrc = "fail" /\ obs[p].ssrc = "ok"
        /\ data[p].btc_price = PyNone /\ data[p].fear_value # PyNone

\* C3 -- No operation of the core raises: whatever the sources answer, no thread
\* ever ends with an exception escaping a fetcher or the composer, and every
\* returned snapshot is well formed (price a float or absent, sentiment value an
\* int or absent, label a string or absent, with a timestamp).
NeverRaises ==
    \A p \in Threads :
        /\ pc[p] # "raised"
        /\ pc[p] = "done" =>
              /\ data[p].btc_price.t \in {"None", "float"}
              /\ data[p].fear_value.t \in {"None", "int"}
              /\ data[p].fear_label.t \in {"None", "str"}
              /\ data[p].timestamp \in 0..now

\* both sources failed and a snapshot with both fields absent was returned
NeverRaisesWitness ==
    \E p \in Threads :
        /\ pc[p] = "done" /\ obs[p].psrc \in Failed /\ obs[p].ssrc \in Failed
        /\ data[p].btc_price = PyNone /\ data[p].fear_value = PyNone

\* C4 -- Price validation: the cache entry under the price key, if any, holds a
\* strictly positive number, and every non-absent price a thread holds as the
\* result of fetch_btc_price is strictly positive.
PriceValidation ==
    /\ PRICE_KEY \in DOMAIN cache =>
          cache[PRICE_KEY].value.t = "float" /\ cache[PRICE_KEY].value.v > 0
    /\ \A p \in Threads :
          /\ btc_price[p] # PyNone => btc_price[p].t = "float" /\ btc_price[p].v > 0
          /\ obs[p].psrc = "invalid" => btc_price[p] = PyNone

\* a non-positive number was parsed and rejected, the cache holding none
PriceValidationWitness ==
    \E p \in Threads :
        obs[p].psrc = "invalid" /\ btc_price[p] = PyNone /\ PRICE_KEY \notin DOMAIN cache

\* the sentiment pair of a snapshot
FearOf(d) == PyPair(d.fear_value, d.fear_label)

\* C5 (as stated) -- Idempotent re-read: a get_market_snapshot call that completes
\* less than TTL after the previous call's capture time returns the same price
\* and sentiment as that call and issues no network request.
IdempotentReReadAsStated ==
    \A p \in Threads :
        (pc[p] = "done" /\ prev.valid /\ now - prev.data.timestamp < CACHE_TTL) =>
            /\ data[p].btc_price = prev.data.btc_price
            /\ FearOf(data[p]) = FearOf(prev.data)
            /\ obs[p].psrc \notin FromNetwork
            /\ obs[p].ssrc \notin FromNetwork

\* C5 (amended) -- Idempotent re-read: of two consecutive calls, the second
\* returns, without a network request, the same value as the first for every
\* field the first call returned present, provided the second call completes
\* less than TTL after that field's cache entry was written.
IdempotentReRead ==
    \A p \in Threads :
        (pc[p] = "done" /\ prev.valid) =>
            /\ (prev.psrc \in Succeeded
                   /\ now - prev.cache[PRICE_KEY].timestamp < CACHE_TTL) =>
                  data[p].btc_price = prev.data.btc_price /\ obs[p].psrc = "hit"
            /\ (prev.ssrc \in Succeeded
                   /\ now - prev.cache[FEAR_KEY].timestamp < CACHE_TTL) =>
                  FearOf(data[p]) = FearOf(prev.data) /\ obs[p].ssrc = "hit"

\* both fields fetched by the first call, both served from the cache by the second
IdempotentReReadWitness ==
    \E p \in Threads :
        /\ pc[p] = "done" /\ prev.valid
        /\ prev.psrc = "ok" /\ prev.ssrc = "ok"
        /\ now - prev.cache[PRICE_KEY].timestamp < CACHE_TTL
        /\ obs[p].psrc = "hit" /\ obs[p].ssrc = "hit"
        /\ data[p].btc_price = prev.data.btc_price /\ now > prev.data.timestamp

\* C6 -- Cache hit avoids I/O: a fetcher that looks up its key while the entry is
\* present and younger than TTL returns exactly the cached value and sends no
\* request; it sends a request only when the entry is missing or stale.
CacheHitAvoidsIO ==
    [][\A p \in Threads :
          /\ (pc[p] = "price_get" /\ pc'[p] # "price_get") =>
                IF Fresh(cache, PRICE_KEY, now)
                THEN /\ pc'[p] = "fear_get"
                     /\ btc_price'[p] = cache[PRICE_KEY].value
                     /\ obs'[p].psrc = "hit"
                ELSE pc'[p] = "price_req"
          /\ (pc[p] = "fear_get" /\ pc'[p] # "fear_get") =>
                IF Fresh(cache, FEAR_KEY, now)
                THEN /\ pc'[p] = "done"
                     /\ fear'[p] = cache[FEAR_KEY].value
                     /\ obs'[p].ssrc = "hit"
                ELSE pc'[p] = "fear_req"
          /\ (pc'[p] = "price_req" /\ pc[p] # "price_req") => ~Fresh(cache, PRICE_KEY, now)
          /\ (pc'[p] = "fear_req" /\ pc[p] # "fear_req") => ~Fresh(cache, FEAR_KEY, now)
      ]_vars

\* a price served from a fresh entry while the sentiment entry of value 0 is fresh
CacheHitAvoidsIOWitness ==
    \E p \in Threads :
        /\ pc[p] = "fear_get" /\ obs[p].psrc = "hit"
        /\ Fresh(cache, PRICE_KEY, now) /\ btc_price[p] = cache[PRICE_KEY].value
        /\ Fresh(cache, FEAR_KEY, now) /\ cache[FEAR_KEY].value.a = PyInt(0)

Labels == {"Extreme Fear", "Fear", "Neutral", "Greed", "Extreme Greed"}

\* the reference mapping of the thresholds
RefLabel(v) ==
    CASE v \in 0..25   -> "Extreme Fear"
      [] v \in 26..45  -> "Fear"
      [] v \in 46..55  -> "Neutral"
      [] v \in 56..75  -> "Greed"
      [] v \in 76..100 -> "Extreme Greed"

\* C7 -- Label thresholds: for every integer v in 0..100 the label computed is the
\* reference mapping's (<=25 Extreme Fear, 26..45 Fear, 46..55 Neutral, 56..75
\* Greed, 76..100 Extreme Greed) and one of the five labels.
LabelThresholds ==
    (probe.op = "label" /\ probe.arg.v \in 0..100) =>
        /\ probe.res = PyStr(RefLabel(probe.arg.v))
        /\ probe.res.s \in Labels

\* the boundary 75 -> Greed
LabelThresholdsWitness ==
    probe.op = "label" /\ probe.arg = PyInt(75) /\ probe.res = PyStr("Greed")

\* a well-formed sentiment pair: a value in 0..100 with the label of that value
ConsistentPair(x) ==
    /\ x.t = "tuple"
    /\ x.a.t = "int" /\ x.a.v \in 0..100
    /\ x.b = PyStr(RefLabel(x.a.v))

\* C8 -- No inconsistent sentiment pair, no corrupted cache: under every
\* interleaving the sentiment cache entry, if any, is a pair (v, l) with v in
\* 0..100 and l the label of v, and every returned snapshot has value and label
\* both absent or both present with the label of the value.
ConsistentSentiment ==
    /\ FEAR_KEY \in DOMAIN cache => ConsistentPair(cache[FEAR_KEY].value)
    /\ \A p \in Threads : pc[p] = "done" =>
          \/ FearOf(data[p]) = NoneNone
          \/ ConsistentPair(FearOf(data[p]))

\* two threads wrote the sentiment entry in a race and one has returned its pair
ConsistentSentimentWitness ==
    /\ FEAR_KEY \in DOMAIN cache
    /\ redundant[FEAR_KEY] >= 1
    /\ \E p \in Threads : pc[p] = "done" /\ obs[p].ssrc = "ok"
          /\ data[p].fear_value # PyNone

\* C9 -- Total unavailability: cmd_status sends the "sources temporarily
\* unavailable" text exactly when both fetchers returned absent, and the formatted
\* snapshot whenever the price or the sentiment is present.
UnavailableIffBothAbsent ==
    \A p \in Threads : pc[p] = "done" =>
        (text[p] = "unavailable" <=> (btc_price[p] = PyNone /\ fear[p] = NoneNone))

RECURSIVE DropTo(_, _)
\* the text after the first occurrence of a word (empty when it does not occur)
DropTo(txt, w) ==
    IF txt = <<>> THEN <<>>
    ELSE IF Head(txt).w = w THEN Tail(txt) ELSE DropTo(Tail(txt), w)

RECURSIVE FirstNum(_)
\* the first run of digits of a text, as a set: empty when there is none
FirstNum(txt) ==
    IF txt = <<>> THEN {}
    ELSE IF Head(txt).w = "num" THEN {Head(txt).d} ELSE FirstNum(Tail(txt))

\* the number a pattern captures: the first one to three digits of the first
\* run of digits after the first occurrence of the word, as a set of numbers
Captured(w, txt) ==
    {IF Len(ds) = 1 THEN ds[1]
     ELSE IF Len(ds) = 2 THEN 10 * ds[1] + ds[2]
     ELSE 100 * ds[1] + 10 * ds[2] + ds[3] : ds \in FirstNum(DropTo(txt, w))}

\* the reading a captured number gives: absent when out of 0..100
Reading(v) ==
    IF v \in 0..100 THEN PyPair(PyInt(v), PyStr(RefLabel(v))) ELSE NoneNone

\* C11 -- Pattern priority: when the "Now" pattern matches, the result comes from
\* the number it captures alone (absent when that number is out of 0..100, even
\* if the "Index" pattern captures one in range); the "Index" pattern's number is
\* used only when "Now" has no match; with neither match the result is absent.
PatternPriority ==
    probe.op = "parse" =>
        LET n == Captured("Now", probe.arg.toks)
            i == Captured("Index", probe.arg.toks)
        IN probe.res = IF n # {} THEN Reading(CHOOSE v \in n : TRUE)
                       ELSE IF i # {} THEN Reading(CHOOSE v \in i : TRUE)
                       ELSE NoneNone

\* "Index 70 ... Now 101": the "Now" number is out of range and the result is
\* absent although the "Index" number is in range
PatternPriorityWitness ==
    /\ probe.op = "parse"
    /\ probe.arg.toks = <<Word("Index"), Num(<<7, 0>>), Word("Now"), Num(<<1, 0, 1>>)>>
    /\ probe.res = NoneNone

\* C12 -- Frame of the cache operations: get(key) leaves the whole cache as it
\* was, on a hit, on a stale entry and on a missing one (nothing is deleted, no
\* timestamp is refreshed); set(key, value) puts (value, now) under key and
\* leaves every other key's entry as it was.
CacheFrame ==
    [][/\ probe'.op = "get" => cache' = cache
       /\ probe'.op = "set" =>
             /\ DOMAIN cache' = DOMAIN cache \cup {probe'.key}
             /\ cache'[probe'.key] = [value |-> probe'.arg, timestamp |-> now]
             /\ \A k \in DOMAIN cache \ {probe'.key} : cache'[k] = cache[k]
      ]_vars

\* a get that found a stale entry, both keys still holding their entries
CacheFrameWitness ==
    /\ probe.op = "get" /\ probe.res = PyNone
    /\ DOMAIN cache = Keys
    /\ now - cache[probe.key].timestamp >= CACHE_TTL
    /\ \E k \in Keys : now - cache[k].timestamp < CACHE_TTL

\* the entry under a key, as a set: empty when the key is not there
EntryOf(c, k) == IF k \in DOMAIN c THEN {c[k]} ELSE {}

\* C13 -- Failures are never cached: when a fetcher has returned absent, the
\* cache entry of its key is what it was before the call (a stale entry keeps its
\* value and timestamp and is not served instead), and the next call fetches
\* that key from the network again.  Calls are consecutive; prev.cache is the
\* cache the call started with.
FailuresNotCached ==
    \A p \in Threads : pc[p] = "done" =>
        /\ data[p].btc_price = PyNone =>
              EntryOf(cache, PRICE_KEY) = EntryOf(prev.cache, PRICE_KEY)
        /\ FearOf(data[p]) = NoneNone =>
              EntryOf(cache, FEAR_KEY) = EntryOf(prev.cache, FEAR_KEY)
        /\ (prev.valid /\ prev.data.btc_price = PyNone) => obs[p].psrc \in FromNetwork
        /\ (prev.valid /\ FearOf(prev.data) = NoneNone) => obs[p].ssrc \in FromNetwork

\* a price fetch failed twice in a row over a stale entry, which is still there
FailuresNotCachedWitness ==
    \E p \in Threads :
        /\ pc[p] = "done" /\ data[p].btc_price = PyNone /\ obs[p].psrc \in Failed
        /\ prev.valid /\ prev.data.btc_price = PyNone
        /\ PRICE_KEY \in DOMAIN cache /\ now - cache[PRICE_KEY].timestamp >= CACHE_TTL

\* C14 -- Termination: given that every request returns a response or times
\* out and that no thread is starved, every invocation that has started
\* reaches its return with a snapshot composed, also while another invocation runs.
Termination ==
    \A p \in Threads : (pc[p] = "price_get") ~> (pc[p] = "done" /\ text[p] # "")

\* one invocation returns while another is still waiting for its response
TerminationWitness ==
    \E p, q \in Threads :
        /\ pc[p] = "done" /\ text[p] # ""
        /\ pc[q] \in {"price_req", "fear_req"}

PriceSteps == {"price_get", "price_req", "price_set"}

FearSteps == {"fear_get", "fear_req", "fear_set"}

\* C15 -- Sequential fetch order: in one invocation every step of the price
\* fetch (lookup, request, write) is taken before anything of the sentiment
\* fetch, each source gets at most one request, and the snapshot's timestamp
\* is read when both fetches are over.
FetchOrder ==
    [][\A p \in Threads :
          /\ (pc[p] \in PriceSteps /\ pc'[p] # pc[p]) =>
                /\ obs[p].ssrc = "none" /\ obs[p].sreq = 0 /\ fear[p] = NoneNone
                /\ pc'[p] \in PriceSteps \cup {"fear_get"}
          /\ pc'[p] \in FearSteps => obs'[p].psrc # "none"
          /\ obs'[p].preq <= 1 /\ obs'[p].sreq <= 1
          /\ (pc'[p] = "done" /\ pc[p] # "done") =>
                /\ data'[p].timestamp = now'
                /\ obs'[p].psrc # "none" /\ obs'[p].ssrc # "none"
                /\ data'[p].btc_price = btc_price'[p]
                /\ FearOf(data'[p]) = fear'[p]
      ]_vars

\* both values came from the network, one request each, and time passed
\* between the price write and the snapshot
FetchOrderWitness ==
    \E p \in Threads :
        /\ pc[p] = "done"
        /\ obs[p].psrc = "ok" /\ obs[p].ssrc = "ok"
        /\ obs[p].preq = 1 /\ obs[p].sreq = 1
        /\ cache[PRICE_KEY].value = btc_price[p]
        /\ cache[PRICE_KEY].timestamp < data[p].timestamp

\* C16 -- Request shape: every request an invocation has sent, to the price
\* source as to the sentiment source, carries the browser header set and a
\* timeout of REQUEST_TIMEOUT.
RequestShape ==
    \A p \in Threads : \A r \in obs[p].sent :
        r.headers = BrowserHeaders /\ r.timeout = REQUEST_TIMEOUT

\* C17 -- Bounded cache: whatever the invocations and their interleaving, the
\* keys in the cache are among the two well-known keys, so the cache holds at
\* most two entries.
BoundedCache ==
    /\ DOMAIN cache \subseteq Keys
    /\ Cardinality(DOMAIN cache) <= Cardinality(Keys)
    /\ Cardinality(Keys) = 2

\* both keys are in the cache, each written again after its first entry expired
BoundedCacheWitness ==
    /\ DOMAIN cache = Keys
    /\ \A k \in Keys : cache[k].timestamp >= CACHE_TTL
    /\ calls = CallBudget

\* C18 -- Truthiness is presence: every value in the cache is truthy (a price
\* above zero, a pair with its value and label), so for both keys the `if cached`
\* test is true exactly when the entry is present and fresh; a sentiment
\* entry of value 0 is a hit.
TruthinessIsPresence ==
    /\ \A k \in DOMAIN cache : Truthy(cache[k].value)
    /\ PRICE_KEY \in DOMAIN cache =>
          cache[PRICE_KEY].value.t = "float" /\ cache[PRICE_KEY].value.v > 0
    /\ FEAR_KEY \in DOMAIN cache =>
          /\ cache[FEAR_KEY].value.t = "tuple"
          /\ cache[FEAR_KEY].value.a.t = "int"
          /\ cache[FEAR_KEY].value.b.t = "str"
    /\ \A k \in Keys : Truthy(get_cached(cache, k, now)) <=> Fresh(cache, k, now)

\* an invocation was served the sentiment value 0 from the cache
TruthinessIsPresenceWitness ==
    \E p \in Threads :
        /\ obs[p].ssrc = "hit"
        /\ fear[p].a = PyInt(0)
        /\ Fresh(cache, FEAR_KEY, now) /\ cache[FEAR_KEY].value = fear[p]

\* C19 (as stated) -- The cache never regresses: no invocation has written the
\* value of its response over the value of a response that arrived later.
NoRegress ==
    \A p \in Threads :
        /\ ~(obs[p].pold /\ pc[p] # "price_set")
        /\ ~(obs[p].sold /\ pc[p] # "fear_set")

\* C19 -- Last write wins: each write leaves under its key the writer's value
\* stamped with the time of the write, whatever was there and whichever
\* response arrived first; the entry left after two racing writes is that of
\* the later write, which can be the earlier response.
LastWriteWins ==
    [][\A p \in Threads :
          /\ (pc[p] = "price_set" /\ pc'[p] # "price_set") =>
                cache'[PRICE_KEY] = [value |-> btc_price[p], timestamp |-> now]
          /\ (pc[p] = "fear_set" /\ pc'[p] # "fear_set") =>
                cache'[FEAR_KEY] = [value |-> fear[p], timestamp |-> now]
      ]_vars

\* thread q's price arrived after thread p's and was written first; p's
\* different, earlier price is now the cache entry
LastWriteWinsWitness ==
    \E p, q \in Threads :
        /\ obs[p].pold /\ pc[p] = "fear_get"
        /\ obs[q].psrc = "ok" /\ pc[q] \in FearSteps
        /\ btc_price[q] # btc_price[p]
        /\ cache[PRICE_KEY].value = btc_price[p]

====
